---- MODULE Spec2Model ----
(***************************************************************************)
(* rs-downloader: download_in_parallel (src/src/main.rs).                  *)
(*                                                                         *)
(* The orchestrator pops every work item off the work queue and hands one  *)
(* job per item to a scoped thread pool of thread_count threads.  Each job *)
(* performs the GET, creates the file, pushes StartFile, copies the body   *)
(* through a Watcher (pushing Downloading per non-empty read) and pushes   *)
(* Success; try_or_send! pushes Error and returns from the job on any      *)
(* failure.  Unless quiet, a detached watcher thread pops the message      *)
(* queue and folds the messages into a DownloadWatcher.  When the pool     *)
(* scope ends (all jobs finished) the orchestrator pushes Done.            *)
(*                                                                         *)
(* Inputs are the ones main() produces: URLs that parse and paths whose    *)
(* file name is valid UTF-8, so the unwrap()s of lines 300 and 320 succeed.*)
(* A task is identified by its id (WorkItem.id + 1); its file name and the *)
(* error its failure produces are identified by the same number.           *)
(*                                                                         *)
(* A job's steps that touch no shared state (building the client, the GET, *)
(* File::create) are taken together with the push that follows them.       *)
(* MaxReads caps the number of non-empty reads of a whole run, MaxTasks    *)
(* the number of URLs and MaxThreads the size of the pool.                 *)
(***************************************************************************)
EXTENDS Integers, Sequences, FiniteSets, TLC

\* Bounds of the model.
MaxTasks == 2
MaxThreads == 2
MaxReads == 1
\* Watcher::read on its own: number of reads, largest byte count of a read
MaxResults == 3
MaxSize == 2
\* fmt_bytes on its own: the byte counts m * 10^p with m <= MaxMantissa, p <= MaxExponent
MaxMantissa == 15
MaxExponent == 6
\* the watcher loop on its own: number of messages handed to it, and the
\* step in ms by which its clock advances
MaxFeed == 3
TickStep == 10

VARIABLES
    num_files,        \* file_count = urls.len()
    thread_count,     \* size of the pool
    quiet,            \* the quiet flag
    workitem_queue,   \* MsQueue<WorkItem>: sequence of task ids
    jobs,             \* the pool's job channel: jobs handed over by scope.execute
    o_pc,             \* position of the orchestrator thread
    result,           \* return value of download_in_parallel
    task_pc,          \* position of the job of each task
    runner,           \* pool thread that runs the job of each task (0: none yet)
    reads,            \* number of non-empty reads made so far by all jobs together
    executed,         \* number of times a pool thread has started each task's job
    order,            \* what each task's job has pushed so far: "none", "started"
                      \* (StartFile, then Downloading), "succeeded" or "failed"
                      \* (then its one terminal event), or "other"
    terminals,        \* number of terminal events (Success, Error) pushed for each task
    message_queue,    \* MsQueue<Message>
    done_count,       \* number of Done messages pushed
    w_pc,             \* position of the watcher thread
    status_map,       \* DownloadWatcher.status_map
    quitting,         \* DownloadWatcher.quitting
    files_finished,   \* DownloadWatcher.files_finished
    msg,              \* the message the watcher popped last
    rd_inner,         \* Watcher::read on its own: the results of the inner reader
    rd_pos,           \* number of calls of Watcher::read made so far
    rd_returned,      \* the results Watcher::read has returned
    rd_calls,         \* the arguments the callback f was invoked with
    fmt_in,           \* fmt_bytes on its own: the argument
    fmt_out,          \* what fmt_bytes returned for it
    since,            \* the watcher loop on its own: last.elapsed() in ms
    renders,          \* number of calls of output()
    fed               \* number of messages handed to the watcher loop

vars == <<num_files, thread_count, quiet, workitem_queue, jobs, o_pc, result,
          task_pc, runner, reads, executed, order, terminals,
          message_queue, done_count, w_pc,
          status_map, quitting, files_finished, msg,
          rd_inner, rd_pos, rd_returned, rd_calls, fmt_in, fmt_out,
          since, renders, fed>>

orch_vars == <<workitem_queue, o_pc, result, done_count>>
task_vars == <<task_pc, runner, reads, executed, order, terminals>>
watch_vars == <<w_pc, status_map, quitting, files_finished, msg>>
param_vars == <<num_files, thread_count, quiet>>
read_vars == <<rd_inner, rd_pos, rd_returned, rd_calls>>
fmt_vars == <<fmt_in, fmt_out>>
timer_vars == <<since, renders, fed>>
\* state of the parts that are also examined on their own
unit_vars == <<read_vars, fmt_vars, timer_vars>>
pipeline_vars == <<param_vars, orch_vars, jobs, task_vars, message_queue, watch_vars>>

Tasks == 1..num_files
Threads == 1..thread_count
\* byte counts a read of the response body returns
Chunks == {1}

----------------------------------------------------------------------------
\* Messages.  Fields a variant does not carry are 0.

NoMsg == [type |-> "None", thread_id |-> 0, file_name |-> 0, bytes_read |-> 0, err |-> 0]

StartFileMsg(t, name) ==
    [type |-> "StartFile", thread_id |-> t, file_name |-> name, bytes_read |-> 0, err |-> 0]

DownloadingMsg(t, n) ==
    [type |-> "Downloading", thread_id |-> t, file_name |-> 0, bytes_read |-> n, err |-> 0]

SuccessMsg(t) ==
    [type |-> "Success", thread_id |-> t, file_name |-> 0, bytes_read |-> 0, err |-> 0]

ErrorMsg(t, e) ==
    [type |-> "Error", thread_id |-> t, file_name |-> 0, bytes_read |-> 0, err |-> e]

DoneMsg == [type |-> "Done", thread_id |-> 0, file_name |-> 0, bytes_read |-> 0, err |-> 0]

Terminal == {"Success", "Error"}

----------------------------------------------------------------------------
\* Progress entries of the status map (file_size, start_time and
\* download_rate do not influence control flow and are left out).

NoEntry == [present |-> FALSE, file_name |-> 0, progress |-> 0, error |-> 0]

\* Progress { file_name, progress: 0, error: None, .. } of the StartFile branch
StartedProgress(name) == [present |-> TRUE, file_name |-> name, progress |-> 0, error |-> 0]

\* Progress::new(): empty file name, no error
NewProgress == [present |-> TRUE, file_name |-> 0, progress |-> 0, error |-> 0]

----------------------------------------------------------------------------
\* DownloadWatcher::process

\* (mutant) process without its quitting check: true for Done alone
ShouldStopOnlyDone(m, q) == m.type = "Done"

\* process returns true: the quitting flag is set, or the message is Done
ShouldStop(m, q) == q \/ m.type = "Done"

\* (mutant) the Downloading branch carries on when the id has no entry
UnwrapNeverPanics(m, sm, q) == FALSE

\* HashMap::get_mut(&thread_id).unwrap() of the Downloading branch panics
\* when the map has no entry for the id
UnwrapPanics(m, sm, q) ==
    ~q /\ m.type = "Downloading" /\ ~sm[m.thread_id].present

\* (mutant) the counter is also incremented when a file starts
FinishedAfterCountsStart(m, ff) ==
    IF m.type \in {"StartFile", "Success"} THEN ff + 1 ELSE ff

\* (mutant) the counter is also incremented when a file fails
FinishedAfterCountsError(m, ff) ==
    IF m.type \in {"Success", "Error"} THEN ff + 1 ELSE ff

\* files_finished after the message: the Success branch adds one
FinishedAfter(m, ff) == IF m.type = "Success" THEN ff + 1 ELSE ff

\* (mutant) the Success branch leaves the entry in the map
MapAfterKeepsEntry(m, sm) ==
    CASE m.type = "StartFile" ->
            [sm EXCEPT ![m.thread_id] = StartedProgress(m.file_name)]
      [] m.type = "Downloading" ->
            [sm EXCEPT ![m.thread_id].progress = @ + m.bytes_read]
      [] m.type = "Error" ->
            LET e == IF sm[m.thread_id].present THEN sm[m.thread_id] ELSE NewProgress
            IN  [sm EXCEPT ![m.thread_id] = [e EXCEPT !.error = m.err]]
      [] OTHER -> sm

\* (mutant) the StartFile branch inserts nothing
MapAfterIgnoresStart(m, sm) ==
    CASE m.type = "Success" ->
            [sm EXCEPT ![m.thread_id] = NoEntry]
      [] m.type = "Downloading" ->
            [sm EXCEPT ![m.thread_id].progress = @ + m.bytes_read]
      [] m.type = "Error" ->
            LET e == IF sm[m.thread_id].present THEN sm[m.thread_id] ELSE NewProgress
            IN  [sm EXCEPT ![m.thread_id] = [e EXCEPT !.error = m.err]]
      [] OTHER -> sm

\* status_map after the message
MapAfter(m, sm) ==
    CASE m.type = "StartFile" ->
            [sm EXCEPT ![m.thread_id] = StartedProgress(m.file_name)]
      [] m.type = "Success" ->
            [sm EXCEPT ![m.thread_id] = NoEntry]
      [] m.type = "Downloading" ->
            [sm EXCEPT ![m.thread_id].progress = @ + m.bytes_read]
      [] m.type = "Error" ->
            LET e == IF sm[m.thread_id].present THEN sm[m.thread_id] ELSE NewProgress
            IN  [sm EXCEPT ![m.thread_id] = [e EXCEPT !.error = m.err]]
      [] OTHER -> sm

----------------------------------------------------------------------------
\* Work queue and thread pool

\* MsQueue::try_pop: None (0) on an empty queue, else the head
TryPop(q) == IF q = <<>> THEN 0 ELSE Head(q)

\* (mutant) try_pop hands out the head and leaves it in the queue
AfterTryPopKeepsHead(q) == q

\* the queue after try_pop: the head is removed
AfterTryPop(q) == IF q = <<>> THEN q ELSE Tail(q)

Running == {"get", "copy"}

\* (mutant) a pool thread takes a job while it still runs one
IdleAlways(t) == TRUE

\* a pool thread runs one job at a time: it takes the next job only when the
\* job it ran before has returned
Idle(t) == \A i \in Tasks : runner[i] = t => task_pc[i] = "done"

\* (mutant) the scope ends without waiting for the jobs
AllJobsFinishedNoWait == TRUE

\* Scope::drop -> join_all: every job handed to the pool has finished
AllJobsFinished == jobs = <<>> /\ \A t \in Threads : Idle(t)

\* (mutant) try_or_send! without its return: the job carries on after the push
AfterFailureNoReturn(pc) == "copy"

\* (mutant) the failing job never returns to the pool
AfterFailureHangs(pc) == "failed"

\* try_or_send!: after pushing Error the job returns
AfterFailure(pc) == "done"

\* (mutant) the watcher thread is spawned whatever the quiet flag
WatcherAfterSpawnAlways(q, w) == "running"

\* if !quiet { thread::spawn(..) }: the watcher thread exists only when quiet is unset
WatcherAfterSpawn(q, w) == IF q THEN w ELSE "running"

\* the parts examined on their own, at rest
ReadIdle == rd_inner = <<>> /\ rd_pos = 0 /\ rd_returned = <<>> /\ rd_calls = <<>>
FmtIdle == fmt_in = 0 /\ fmt_out = [whole |-> 0, decimals |-> <<>>, unit |-> ""]
TimerIdle == since = 0 /\ renders = 0 /\ fed = 0

\* download_in_parallel before its first step
PipelineInit ==
    /\ num_files \in 0..MaxTasks
    /\ thread_count \in 1..MaxThreads
    /\ quiet \in BOOLEAN
    /\ workitem_queue = [k \in 1..num_files |-> k]
    /\ jobs = <<>>
    /\ o_pc = "dispatch"
    /\ result = "none"
    /\ task_pc = [i \in 1..MaxTasks |-> "queued"]
    /\ runner = [i \in 1..MaxTasks |-> 0]
    /\ reads = 0
    /\ executed = [i \in 1..MaxTasks |-> 0]
    /\ order = [i \in 1..MaxTasks |-> "none"]
    /\ terminals = [i \in 1..MaxTasks |-> 0]
    /\ message_queue = <<>>
    /\ done_count = 0
    /\ w_pc = "unspawned"
    /\ status_map = [t \in 1..MaxThreads |-> NoEntry]
    /\ quitting = FALSE
    /\ files_finished = 0
    /\ msg = NoMsg

Init == PipelineInit /\ ReadIdle /\ FmtIdle /\ TimerIdle

\* while let Some(item) = workitem_queue.try_pop() { scope.execute(job) }
Dispatch ==
    /\ o_pc = "dispatch"
    /\ TryPop(workitem_queue) # 0
    /\ LET item == TryPop(workitem_queue) IN
        /\ workitem_queue' = AfterTryPop(workitem_queue)
        /\ jobs' = Append(jobs, item)
        /\ task_pc' = [task_pc EXCEPT ![item] = "job"]
    /\ UNCHANGED <<o_pc, result, done_count, runner, reads, executed, order, terminals,
                   message_queue,
                   watch_vars, param_vars, unit_vars>>

\* try_pop returns None: the loop ends; unless quiet the watcher thread is
\* spawned and builds its DownloadWatcher (status_map empty, quitting false,
\* files_finished 0)
SpawnWatcher ==
    /\ o_pc = "dispatch"
    /\ TryPop(workitem_queue) = 0
    /\ o_pc' = "join"
    /\ w_pc' = WatcherAfterSpawn(quiet, w_pc)
    /\ UNCHANGED <<workitem_queue, jobs, result, done_count, task_vars, message_queue,
                   status_map, quitting, files_finished, msg, param_vars, unit_vars>>

\* the pool scope ends once all jobs have finished
JoinAll ==
    /\ o_pc = "join"
    /\ AllJobsFinished
    /\ o_pc' = "push_done"
    /\ UNCHANGED <<workitem_queue, jobs, result, done_count, task_vars, message_queue,
                   watch_vars, param_vars, unit_vars>>

\* (mutant) the function returns without pushing Done
ReturnWithoutDone ==
    /\ o_pc = "push_done"
    /\ result' = "Ok"
    /\ o_pc' = "returned"
    /\ UNCHANGED <<workitem_queue, done_count, jobs, task_vars, message_queue,
                   watch_vars, param_vars, unit_vars>>

\* message_queue.push(Message::Done); Ok(())
PushDone ==
    /\ o_pc = "push_done"
    /\ message_queue' = Append(message_queue, DoneMsg)
    /\ done_count' = done_count + 1
    /\ result' = "Ok"
    /\ o_pc' = "returned"
    /\ UNCHANGED <<workitem_queue, jobs, task_vars, watch_vars, param_vars, unit_vars>>

----------------------------------------------------------------------------
\* Jobs run by the pool threads

\* thread_id::get() values are opaque: the pool's threads are numbered in the
\* order in which they take their first job
Fresh(t) == \A i \in Tasks : runner[i] # t

\* the order of a task's pushes after one more push of the given type
OrderAfter(o, type) ==
    CASE o = "none" /\ type = "StartFile" -> "started"
      [] o = "none" /\ type = "Error" -> "failed"
      [] o = "started" /\ type = "Downloading" -> "started"
      [] o = "started" /\ type = "Success" -> "succeeded"
      [] o = "started" /\ type = "Error" -> "failed"
      [] OTHER -> "other"

\* the job of task i pushes message m
JobPush(i, m) ==
    /\ message_queue' = Append(message_queue, m)
    /\ order' = [order EXCEPT ![i] = OrderAfter(@, m.type)]
    /\ terminals' = [terminals EXCEPT ![i] = IF m.type \in Terminal THEN @ + 1 ELSE @]

\* a free pool thread receives the next job of the channel and starts it
StartJob(t) ==
    /\ Idle(t)
    /\ Fresh(t) => \A u \in 1..(t - 1) : ~Fresh(u)
    /\ jobs # <<>>
    /\ LET i == Head(jobs) IN
        /\ task_pc' = [task_pc EXCEPT ![i] = "get"]
        /\ runner' = [runner EXCEPT ![i] = t]
        /\ executed' = [executed EXCEPT ![i] = @ + 1]
    /\ jobs' = Tail(jobs)
    /\ UNCHANGED <<orch_vars, reads, order, terminals, message_queue, watch_vars,
                   param_vars, unit_vars>>

\* try_or_send!'s Err arm: push Error with this thread's id, return from the job
Fail(i) ==
    /\ JobPush(i, ErrorMsg(runner[i], i))
    /\ task_pc' = [task_pc EXCEPT ![i] = AfterFailure(task_pc[i])]
    /\ UNCHANGED reads

\* the job up to its first push: client.get(item.url).send(), File::create(path)
\* and, when both succeed, message_queue.push(Message::StartFile { .. })
Begin(i, get_ok, create_ok) ==
    /\ task_pc[i] = "get"
    /\ IF get_ok /\ create_ok
       THEN /\ JobPush(i, StartFileMsg(runner[i], i))
            /\ task_pc' = [task_pc EXCEPT ![i] = "copy"]
            /\ UNCHANGED reads
       ELSE Fail(i)
    /\ UNCHANGED <<orch_vars, jobs, runner, executed, watch_vars, param_vars, unit_vars>>

\* io::copy: a read through the Watcher that returns n > 0 bytes; the callback
\* pushes Downloading
CopyRead(i, n) ==
    /\ task_pc[i] = "copy"
    /\ reads < MaxReads
    /\ JobPush(i, DownloadingMsg(runner[i], n))
    /\ reads' = reads + 1
    /\ UNCHANGED <<orch_vars, jobs, task_pc, runner, executed, watch_vars, param_vars, unit_vars>>

\* io::copy fails (a read or a write returns Err)
CopyFail(i) ==
    /\ task_pc[i] = "copy"
    /\ Fail(i)
    /\ UNCHANGED <<orch_vars, jobs, runner, executed, watch_vars, param_vars, unit_vars>>

\* io::copy reads 0 bytes and returns Ok; the job pushes Success and returns
CopyDone(i) ==
    /\ task_pc[i] = "copy"
    /\ JobPush(i, SuccessMsg(runner[i]))
    /\ task_pc' = [task_pc EXCEPT ![i] = "done"]
    /\ UNCHANGED reads
    /\ UNCHANGED <<orch_vars, jobs, runner, executed, watch_vars, param_vars, unit_vars>>

----------------------------------------------------------------------------
\* Watcher thread

\* one iteration of the loop: pop, process, and output() when the interval
\* has elapsed (elapsed: last.elapsed() > dt); key is the key event that
\* peek_event returns in output().  The terminal is taken to work:
\* RustBox::init and peek_event return Ok.
Loop(elapsed, key) ==
    /\ w_pc = "running"
    /\ message_queue # <<>>
    /\ LET m == Head(message_queue) IN
        /\ message_queue' = Tail(message_queue)
        /\ msg' = m
        /\ IF ShouldStop(m, quitting)
           THEN /\ w_pc' = "stopped"
                /\ UNCHANGED <<status_map, files_finished, quitting>>
           ELSE IF UnwrapPanics(m, status_map, quitting)
           THEN /\ w_pc' = "panicked"
                /\ UNCHANGED <<status_map, files_finished, quitting>>
           ELSE /\ status_map' = MapAfter(m, status_map)
                /\ files_finished' = FinishedAfter(m, files_finished)
                /\ IF elapsed
                   THEN /\ quitting' = (quitting \/ key = "q")
                        /\ UNCHANGED w_pc
                   ELSE /\ key = "none"
                        /\ UNCHANGED <<quitting, w_pc>>
    /\ UNCHANGED <<orch_vars, jobs, task_vars, param_vars>>

\* the loop as download_in_parallel runs it
WatcherStep(elapsed, key) == Loop(elapsed, key) /\ UNCHANGED unit_vars

Keys == {"none", "q", "other"}

Next ==
    \/ Dispatch
    \/ SpawnWatcher
    \/ JoinAll
    \/ PushDone
    \/ \E t \in Threads : StartJob(t)
    \/ \E i \in Tasks, get_ok \in BOOLEAN, create_ok \in BOOLEAN : Begin(i, get_ok, create_ok)
    \/ \E i \in Tasks, n \in Chunks : CopyRead(i, n)
    \/ \E i \in Tasks : CopyFail(i)
    \/ \E i \in Tasks : CopyDone(i)
    \/ \E elapsed \in BOOLEAN, key \in Keys : WatcherStep(elapsed, key)

Spec == Init /\ [][Next]_vars

\* steps of the orchestrator thread, of the pool threads and of the watcher thread
OrchestratorNext == Dispatch \/ SpawnWatcher \/ JoinAll \/ PushDone

PoolNext ==
    \/ \E t \in Threads : StartJob(t)
    \/ \E i \in Tasks, get_ok \in BOOLEAN, create_ok \in BOOLEAN : Begin(i, get_ok, create_ok)
    \/ \E i \in Tasks, n \in Chunks : CopyRead(i, n)
    \/ \E i \in Tasks : CopyFail(i)
    \/ \E i \in Tasks : CopyDone(i)

WatcherNext ==
    \E elapsed \in BOOLEAN, key \in Keys : WatcherStep(elapsed, key)

\* every thread is scheduled by the operating system; requests and reads
\* return because of the read timeout, and MsQueue::pop returns once the
\* queue holds a message
FairSpec ==
    Spec /\ WF_vars(OrchestratorNext) /\ WF_vars(PoolNext) /\ WF_vars(WatcherNext)

----------------------------------------------------------------------------
\* Watcher::read on its own: the inner reader yields the results rd_inner,
\* one for each call

\* io::Result<usize>
Ok(n) == [ok |-> TRUE, n |-> n, err |-> 0]
Err(e) == [ok |-> FALSE, n |-> 0, err |-> e]

ReadResults == {Ok(n) : n \in 0..MaxSize} \cup {Err(1)}

SeqsUpTo(S, n) == UNION {[1..k -> S] : k \in 0..n}

\* (mutant) the callback is invoked for every Ok, also for a read of 0 bytes
CallbackArgsEveryOk(r) == IF r.ok THEN <<r.n>> ELSE <<>>

\* if let Ok(n) = result { if n > 0 { (self.f)(n); } }: the arguments of the
\* callback invocations one call of read makes
CallbackArgs(r) == IF r.ok /\ r.n > 0 THEN <<r.n>> ELSE <<>>

ReadInit ==
    /\ PipelineInit /\ num_files = 0 /\ thread_count = 1 /\ quiet
    /\ FmtIdle /\ TimerIdle
    /\ rd_inner \in SeqsUpTo(ReadResults, MaxResults)
    /\ rd_pos = 0
    /\ rd_returned = <<>>
    /\ rd_calls = <<>>

\* one call of Watcher::read: the inner read, the callback, the result handed back
Read ==
    /\ rd_pos < Len(rd_inner)
    /\ LET r == rd_inner[rd_pos + 1] IN
        /\ rd_calls' = rd_calls \o CallbackArgs(r)
        /\ rd_returned' = Append(rd_returned, r)
    /\ rd_pos' = rd_pos + 1
    /\ UNCHANGED <<rd_inner, pipeline_vars, fmt_vars, timer_vars>>

ReadSpec == ReadInit /\ [][Read]_vars

----------------------------------------------------------------------------
\* fmt_bytes on its own

\* a formatted amount: the digits before the decimal point (as a number), the
\* digits after it, and the text that follows the number and the space
Text(whole, decimals, unit) == [whole |-> whole, decimals |-> decimals, unit |-> unit]

NoText == Text(0, <<>>, "")

\* number_prefix::decimal_prefix works to the base 1000
Kilo == 1000

\* Display of number_prefix::Prefix: Kilo, Mega, Giga, .. Yotta
Prefixes == <<"k", "M", "G", "T", "P", "E", "Z", "Y">>

\* decimal_prefix: the amount is divided by 1000 while it is at least 1000
\* (at most 8 times); the number of divisions made
RECURSIVE Divisions(_, _)
Divisions(amount, prefix) ==
    IF amount >= Kilo /\ prefix < Len(Prefixes)
    THEN Divisions(amount \div Kilo, prefix + 1)
    ELSE prefix

\* (mutant) the fraction is cut off
RoundedDown(num, den) == num \div den

\* {:.0} of num / den: the nearest integer; a tie goes to the even one (the
\* ties among the amounts examined are at 1.5, which rounds to 2 also when
\* ties go away from zero)
Rounded(num, den) ==
    LET q == num \div den
        r == num % den
    IN  IF 2 * r > den THEN q + 1
        ELSE IF 2 * r < den THEN q
        ELSE IF q % 2 = 0 THEN q ELSE q + 1

\* fmt_bytes: Standalone(bytes) => "{} bytes", Prefixed(prefix, n) => "{:.0} {}B"
FmtBytes(bytes) ==
    LET prefix == Divisions(bytes, 0) IN
    IF prefix = 0
    THEN Text(bytes, <<>>, "bytes")
    ELSE Text(Rounded(bytes, Kilo ^ prefix), <<>>, Prefixes[prefix] \o "B")

\* whole byte counts, all exactly representable as f32
ByteCounts ==
    {0, 999, 1000, 1500000}
        \cup {m * 10 ^ p : m \in 1..MaxMantissa, p \in 0..MaxExponent}

FmtInit ==
    /\ PipelineInit /\ num_files = 0 /\ thread_count = 1 /\ quiet
    /\ ReadIdle /\ TimerIdle
    /\ fmt_in \in ByteCounts
    /\ fmt_out = NoText

\* one call fmt_bytes(fmt_in)
Format ==
    /\ fmt_out = NoText
    /\ fmt_out' = FmtBytes(fmt_in)
    /\ UNCHANGED <<fmt_in, pipeline_vars, read_vars, timer_vars>>

FmtSpec == FmtInit /\ [][Format]_vars

----------------------------------------------------------------------------
\* The watcher loop on its own: the thread is spawned for a run without
\* tasks, then receives arbitrary messages, one at a time, while its clock
\* advances

\* let dt = Duration::from_millis(25)
Dt == 25

\* (mutant) output() is called after every message
OutputDueAlways(elapsed_ms) == TRUE

\* if last.elapsed() > dt
OutputDue(elapsed_ms) == elapsed_ms > Dt

\* the iteration that handles m calls output(): process returned false (and
\* did not panic) and the interval has elapsed
Outputs(m, sm, q, elapsed_ms) ==
    /\ ~ShouldStop(m, q)
    /\ ~UnwrapPanics(m, sm, q)
    /\ OutputDue(elapsed_ms)

\* every message a sender can push for the ids of the map
AnyMessages ==
    {DoneMsg}
        \cup {StartFileMsg(t, 1) : t \in 1..MaxThreads}
        \cup {DownloadingMsg(t, 1) : t \in 1..MaxThreads}
        \cup {SuccessMsg(t) : t \in 1..MaxThreads}
        \cup {ErrorMsg(t, 1) : t \in 1..MaxThreads}

LoopInit ==
    /\ PipelineInit /\ num_files = 0 /\ thread_count = MaxThreads /\ ~quiet
    /\ ReadIdle /\ FmtIdle /\ TimerIdle

\* a sender pushes a message while the loop waits in pop
Feed(m) ==
    /\ w_pc = "running"
    /\ message_queue = <<>>
    /\ fed < MaxFeed
    /\ message_queue' = Append(message_queue, m)
    /\ fed' = fed + 1
    /\ UNCHANGED <<param_vars, orch_vars, jobs, task_vars, watch_vars,
                   since, renders, read_vars, fmt_vars>>

\* time passes (followed up to the first instant after the interval's end)
Tick ==
    /\ w_pc = "running"
    /\ since <= Dt
    /\ since' = since + TickStep
    /\ UNCHANGED <<pipeline_vars, renders, fed, read_vars, fmt_vars>>

\* one iteration of the loop with its clock: after output(), last = Instant::now()
TimedLoop(key) ==
    /\ Loop(OutputDue(since), key)
    /\ IF Outputs(Head(message_queue), status_map, quitting, since)
       THEN since' = 0 /\ renders' = renders + 1
       ELSE UNCHANGED <<since, renders>>
    /\ UNCHANGED <<fed, read_vars, fmt_vars>>

LoopNext ==
    \/ SpawnWatcher
    \/ \E m \in AnyMessages : Feed(m)
    \/ Tick
    \/ \E key \in Keys : TimedLoop(key)

LoopSpec == LoopInit /\ [][LoopNext]_vars

----------------------------------------------------------------------------
\* Properties

RECURSIVE SumTo(_, _)
SumTo(f, n) == IF n = 0 THEN 0 ELSE f[n] + SumTo(f, n - 1)

\* terminal events pushed so far, over all tasks
TerminalsPushed == SumTo(terminals, num_files)

\* tasks a pool thread has started and that have no terminal event yet
InFlight == {i \in Tasks : task_pc[i] \in Running}

Occurrences(q, i) == Cardinality({k \in 1..Len(q) : q[k] = i})

Returned == o_pc = "returned"

\* C1: in every execution exactly N terminal events (Success or Error) are
\* pushed, exactly one for each dispatched task: no task ever has more than
\* one, a task has its terminal event exactly when its job has returned, and
\* when download_in_parallel returns every task has one and N were pushed in all.
C1_OneTerminalPerTask ==
    /\ \A i \in Tasks : terminals[i] <= 1
    /\ \A i \in Tasks : (terminals[i] = 1) <=> (task_pc[i] = "done")
    /\ Returned => (TerminalsPushed = num_files /\ \A i \in Tasks : terminals[i] = 1)

\* two workers, two tasks, one failed and one succeeded, the function has returned
C1_Witness ==
    /\ Returned /\ num_files = 2 /\ thread_count = 2
    /\ runner[1] # runner[2]
    /\ order[1] = "failed" /\ order[2] = "succeeded"
    /\ TerminalsPushed = 2

\* C2: every work item pushed before the pool starts is popped and executed
\* by exactly one job: at any time an item is in the work queue, in the
\* pool's job channel or has been started, and only one of the three; no
\* item is started twice; when the pool scope has ended every item has been
\* executed to the end; and once the dispatch loop has seen the queue empty
\* try_pop yields nothing.
C2_EachItemExecutedOnce ==
    /\ \A i \in Tasks :
          Occurrences(workitem_queue, i) + Occurrences(jobs, i) + executed[i] = 1
    /\ \A i \in Tasks : executed[i] = 1 <=> runner[i] \in Threads
    /\ o_pc \in {"push_done", "returned"} =>
          \A i \in Tasks : executed[i] = 1 /\ task_pc[i] = "done"
    /\ o_pc # "dispatch" => TryPop(workitem_queue) = 0

\* the scope has ended after two items were executed by two different threads
C2_Witness ==
    /\ o_pc = "push_done" /\ num_files = 2
    /\ executed[1] = 1 /\ executed[2] = 1
    /\ runner[1] = 1 /\ runner[2] = 2

\* C3: a failure of one task aborts only that task: the job that failed has
\* returned (so its thread takes further jobs), the program never gets
\* stuck before download_in_parallel returns, and at the return every task
\* has reached its terminal event, Done has been pushed and the result is Ok.
C3_FailureIsLocal ==
    /\ \A i \in Tasks : order[i] = "failed" => task_pc[i] = "done"
    /\ ~Returned => ENABLED (OrchestratorNext \/ PoolNext)
    /\ Returned =>
          /\ result = "Ok"
          /\ done_count = 1
          /\ \A i \in Tasks : terminals[i] = 1 /\ order[i] \in {"succeeded", "failed"}

\* one thread: its first task failed, it went on to run the second one with
\* success, and the function returned
C3_Witness ==
    /\ Returned /\ result = "Ok" /\ thread_count = 1 /\ num_files = 2
    /\ order[1] = "failed" /\ order[2] = "succeeded"
    /\ runner[1] = 1 /\ runner[2] = 1

\* C4: in every reachable state the number of tasks in flight (started by a
\* pool thread, no terminal event pushed yet) is at most thread_count.
C4_BoundedParallelism == Cardinality(InFlight) <= thread_count

\* the only thread is busy while another job waits in the channel
C4_Witness ==
    /\ thread_count = 1
    /\ Cardinality(InFlight) = 1
    /\ jobs # <<>>

\* C5: files_finished never decreases and is at most num_files in every
\* reachable state.
C5_FinishedMonotoneCapped ==
    /\ [](files_finished <= num_files)
    /\ [][files_finished' >= files_finished]_vars

\* the counter has reached its cap in a run with two files
C5_Witness == num_files = 2 /\ files_finished = 2

CountType(q, type) == Cardinality({k \in 1..Len(q) : q[k].type = type})

\* the watcher has left its receive loop by break / has ended altogether
Stopped == w_pc = "stopped"
WatcherEnded == w_pc \in {"stopped", "panicked"}

\* C6: Done is pushed exactly once and only after every job has finished:
\* at most one Done is ever pushed, one has been pushed when the function
\* returns, when it is pushed no job is queued or running, a Done in the
\* channel is its last message, and once Done is pushed the channel never
\* grows again.
C6_DoneOnceAndLast ==
    /\ [](/\ done_count <= 1
          /\ Returned => done_count = 1
          /\ done_count = 1 => (jobs = <<>> /\ \A i \in Tasks : task_pc[i] = "done")
          /\ CountType(message_queue, "Done") <= done_count
          /\ \A k \in 1..Len(message_queue) :
                message_queue[k].type = "Done" => k = Len(message_queue))
    /\ [][done_count >= 1 => Len(message_queue') <= Len(message_queue)]_vars

\* Done sits at the end of a channel that still holds messages of two tasks
C6_Witness ==
    /\ done_count = 1 /\ num_files = 2
    /\ Len(message_queue) >= 3
    /\ message_queue[Len(message_queue)].type = "Done"
    /\ CountType(message_queue, "Success") >= 1

\* C7: with rendering enabled the watcher's receive loop terminates in every
\* fair execution, for every task count including 0.
C7_WatcherTerminates == (~quiet) => <>WatcherEnded

\* no task at all: the watcher received Done and left its loop
C7_Witness ==
    /\ ~quiet /\ num_files = 0
    /\ Stopped /\ msg.type = "Done"

\* C8: when every task succeeds and no quit key is pressed, at the moment
\* the watcher processes Done it has consumed every worker message,
\* files_finished equals num_files and status_map is empty.
C8_AllSucceedFinalState ==
    (/\ Stopped /\ msg.type = "Done" /\ ~quitting
     /\ \A i \in Tasks : order[i] = "succeeded")
    => /\ message_queue = <<>>
       /\ files_finished = num_files
       /\ \A t \in 1..MaxThreads : ~status_map[t].present

\* two tasks run by two threads, both succeeded, Done processed
C8_Witness ==
    /\ Stopped /\ msg.type = "Done" /\ ~quitting
    /\ num_files = 2 /\ runner[1] # runner[2]
    /\ \A i \in Tasks : order[i] = "succeeded"
    /\ files_finished = 2

\* C9 as stated: with quiet set every message pushed by the workers and the
\* final Done are eventually consumed.
C9_QuietStillDrains ==
    quiet => <>(Returned /\ message_queue = <<>>)

\* C9 amended: with quiet set the downloads are still performed and every
\* message is still pushed, but no watcher thread exists and nothing is ever
\* consumed: the channel holds every message pushed so far, and at the return
\* it holds one terminal event per task followed by Done.
C9_QuietNeverDrains ==
    quiet =>
        /\ w_pc = "unspawned" /\ msg = NoMsg
        /\ CountType(message_queue, "Success") + CountType(message_queue, "Error")
              = TerminalsPushed
        /\ CountType(message_queue, "Downloading") = reads
        /\ CountType(message_queue, "Done") = done_count
        /\ Returned =>
              /\ TerminalsPushed = num_files
              /\ message_queue[Len(message_queue)] = DoneMsg

\* quiet run of two tasks has returned: the channel still holds everything
C9_Witness ==
    /\ quiet /\ Returned /\ num_files = 2
    /\ Len(message_queue) >= 3
    /\ CountType(message_queue, "Success") >= 1

\* C10 as stated: the watcher reaches its terminal state only when it
\* receives Done, never on an earlier worker message.
C10_StopsOnlyOnDone == Stopped => msg.type = "Done"

\* C10 amended: process reports "should stop" for Done and, once the
\* quitting flag is set, for any message: each time the watcher pops a
\* message it leaves the loop exactly when quitting is set or the message is
\* Done, so after a quit keypress it stops at the next message it receives.
C10_StopsOnDoneOrQuit ==
    [][(w_pc = "running" /\ message_queue # <<>> /\ message_queue' = Tail(message_queue))
        => ((w_pc' = "stopped") <=> (quitting \/ Head(message_queue).type = "Done"))]_vars

\* after a quit keypress the watcher left the loop on a worker message
C10_Witness ==
    /\ Stopped /\ quitting
    /\ msg.type \in {"StartFile", "Downloading", "Success", "Error"}

\* C11: a quit keypress affects only the display state: once the quitting
\* flag is set no later message changes status_map or files_finished, the
\* orchestrator and the workers carry on (they are never stuck before the
\* return), and at the return every task has its terminal event and Done has
\* been pushed.
C11_QuitOnlyStopsDisplay ==
    /\ [][quitting => (status_map' = status_map /\ files_finished' = files_finished)]_vars
    /\ []((quitting /\ ~Returned) => ENABLED (OrchestratorNext \/ PoolNext))
    /\ []((quitting /\ Returned) =>
            /\ done_count = 1
            /\ \A i \in Tasks : terminals[i] = 1 /\ task_pc[i] = "done")

\* the watcher left its loop on a quit keypress before it counted any file,
\* and the run still pushed a Success, the other terminal event and Done
C11_Witness ==
    /\ quitting /\ Stopped /\ Returned /\ num_files = 2
    /\ files_finished = 0
    /\ msg.type # "Done"
    /\ CountType(message_queue, "Success") >= 1
    /\ CountType(message_queue, "Done") = 1

RECURSIVE SumSeq(_)
SumSeq(q) == IF q = <<>> THEN 0 ELSE Head(q) + SumSeq(Tail(q))

NonEmptyRead(r) == r.ok /\ r.n > 0

\* byte counts of the given results: n for Ok(n), nothing for Err
BytesOf(q) == [k \in 1..Len(q) |-> IF q[k].ok THEN q[k].n ELSE 0]

\* C12: for any sequence of results of the inner reader, Watcher::read
\* returns each result unchanged, invokes the callback exactly once with n
\* for each read that returned n > 0 bytes and never for a read of 0 bytes or
\* an error, so the callback arguments sum to the number of bytes read.
C12_ReadPassesThrough ==
    /\ rd_returned = SubSeq(rd_inner, 1, rd_pos)
    /\ rd_calls = BytesOf(SelectSeq(rd_returned, NonEmptyRead))
    /\ \A k \in 1..Len(rd_calls) : rd_calls[k] > 0
    /\ SumSeq(rd_calls) = SumSeq(BytesOf(rd_returned))

\* a read of two bytes, an error and a read of one byte: two callbacks
C12_Witness ==
    /\ rd_inner = <<Ok(2), Err(1), Ok(1)>>
    /\ rd_pos = 3
    /\ rd_calls = <<2, 1>>

\* the step is the watcher handling the message at the head of the channel
\* in the match of process (it did not return early on the quitting flag)
Handles(type) ==
    /\ w_pc = "running" /\ ~quitting
    /\ message_queue # <<>>
    /\ message_queue' = Tail(message_queue)
    /\ Head(message_queue).type = type

\* the step puts an entry for id t into status_map / takes it out
Appears(t) == ~status_map[t].present /\ status_map'[t].present
Disappears(t) == status_map[t].present /\ ~status_map'[t].present

\* C13 as stated: status_map holds an entry for a worker id only if the
\* watcher has processed a StartFile for that id and has not since processed
\* a Success for it: an entry comes into the map only with a StartFile of
\* its id, and a Success of the id leaves the map without it.
C13_EntryOnlyAfterStartFile ==
    [][\A t \in 1..MaxThreads :
          /\ Appears(t) =>
                (Handles("StartFile") /\ Head(message_queue).thread_id = t)
          /\ (Handles("Success") /\ Head(message_queue).thread_id = t) =>
                ~status_map'[t].present]_vars

\* C13 amended: status_map holds an entry for a worker id only if the
\* watcher has processed a StartFile or an Error for that id and has not
\* since processed a Success for it: an entry comes into the map only with a
\* StartFile or an Error of its id (the Error branch inserts Progress::new()
\* when the id has none), it leaves the map only with a Success of its id,
\* and a Success of the id leaves the map without it.
C13_EntryAfterStartFileOrError ==
    [][\A t \in 1..MaxThreads :
          /\ Appears(t) =>
                /\ Handles("StartFile") \/ Handles("Error")
                /\ Head(message_queue).thread_id = t
          /\ Disappears(t) =>
                (Handles("Success") /\ Head(message_queue).thread_id = t)
          /\ (Handles("Success") /\ Head(message_queue).thread_id = t) =>
                ~status_map'[t].present]_vars

\* an entry that an Error put into the map: no StartFile was processed for
\* the id, the entry has the empty file name of Progress::new()
C13_Witness ==
    /\ w_pc = "running" /\ msg.type = "Error"
    /\ status_map[msg.thread_id].present
    /\ status_map[msg.thread_id].file_name = 0
    /\ status_map[msg.thread_id].error = msg.err
    /\ files_finished = 0

Formatted == fmt_out # NoText

\* C14 as stated: fmt_bytes renders 0 as "0 bytes", 999 as "999 bytes", 1000
\* as "1 kB" and 1,500,000 as "1.50 MB".
C14_TwoDecimals ==
    Formatted =>
        /\ fmt_in = 0 => fmt_out = Text(0, <<>>, "bytes")
        /\ fmt_in = 999 => fmt_out = Text(999, <<>>, "bytes")
        /\ fmt_in = 1000 => fmt_out = Text(1, <<>>, "kB")
        /\ fmt_in = 1500000 => fmt_out = Text(1, <<5, 0>>, "MB")

\* C14 amended: fmt_bytes scales by 1000 and prints the scaled amount
\* rounded to the nearest integer, without decimals: 0 is "0 bytes", 999 is
\* "999 bytes", 1000 is "1 kB" and 1,500,000 is "2 MB"; an amount below 1000
\* is printed as it is with "bytes", any other divided by the power of 1000
\* that brings it below 1000 and rounded to the nearest whole number.
C14_NoDecimals ==
    Formatted =>
        /\ fmt_in = 0 => fmt_out = Text(0, <<>>, "bytes")
        /\ fmt_in = 999 => fmt_out = Text(999, <<>>, "bytes")
        /\ fmt_in = 1000 => fmt_out = Text(1, <<>>, "kB")
        /\ fmt_in = 1500000 => fmt_out = Text(2, <<>>, "MB")
        /\ fmt_out.decimals = <<>>
        /\ fmt_in < Kilo <=> fmt_out.unit = "bytes"
        /\ fmt_in < Kilo => fmt_out.whole = fmt_in
        /\ \A k \in 1..2 :
              (Kilo ^ k <= fmt_in /\ fmt_in < Kilo ^ (k + 1)) =>
                  /\ fmt_out.unit = Prefixes[k] \o "B"
                  /\ 2 * fmt_out.whole * Kilo ^ k <= 2 * fmt_in + Kilo ^ k
                  /\ 2 * fmt_out.whole * Kilo ^ k >= 2 * fmt_in - Kilo ^ k

\* 1,500,000 bytes formatted: "2 MB"
C14_Witness == fmt_in = 1500000 /\ fmt_out = Text(2, <<>>, "MB")

\* the id of the message at the head of the channel has no entry
HeadHasNoEntry == ~status_map[Head(message_queue).thread_id].present

\* C15 as stated: a Downloading or a Success for a worker id that has no
\* entry in status_map is a benign no-op: the map is left without an entry
\* for that id and the watcher carries on, without error or panic.
C15_MissingEntryIsNoOp ==
    [][((Handles("Downloading") \/ Handles("Success")) /\ HeadHasNoEntry) =>
          /\ ~status_map'[Head(message_queue).thread_id].present
          /\ w_pc' = "running"]_vars

\* C15 amended: a Success for a worker id that has no entry leaves the map
\* as it is and the watcher carries on (files_finished is still incremented);
\* a Downloading for a worker id that has no entry panics in the unwrap of
\* get_mut: the watcher thread ends there, the map and the counter untouched.
C15_MissingEntryPanicsOnDownloading ==
    [][/\ (Handles("Success") /\ HeadHasNoEntry) =>
            /\ status_map' = status_map
            /\ files_finished' = files_finished + 1
            /\ w_pc' = "running"
       /\ (Handles("Downloading") /\ HeadHasNoEntry) =>
            /\ w_pc' = "panicked"
            /\ status_map' = status_map
            /\ files_finished' = files_finished]_vars

\* the watcher thread panicked on a Downloading for an id without entry
C15_Witness ==
    /\ w_pc = "panicked"
    /\ msg.type = "Downloading"
    /\ ~status_map[msg.thread_id].present

\* C16: when a task fails the error is recorded on the progress entry of
\* that same file: once the watcher has processed the Error of a task, the
\* entry of the reporting worker holds that error and has that task's file
\* name (a task's file name and its error carry the task's number).
C16_ErrorOnOwnFile ==
    (w_pc = "running" /\ msg.type = "Error") =>
        /\ status_map[msg.thread_id].present
        /\ status_map[msg.thread_id].error = msg.err
        /\ status_map[msg.thread_id].file_name = msg.err

\* C17: the messages a task's job pushes are either a single Error (no
\* StartFile), or StartFile, then zero or more Downloading, then exactly one
\* of Success and Error: no Downloading comes before the StartFile and
\* nothing comes after the terminal event.  The order of each task's pushes
\* never leaves that pattern, a job has pushed nothing before its first
\* step, only StartFile and Downloading while it copies, and its terminal
\* event exactly when it has returned.
C17_MessageOrderPerTask ==
    [](\A i \in Tasks :
        /\ order[i] \in {"none", "started", "succeeded", "failed"}
        /\ task_pc[i] \in {"queued", "job", "get"} => order[i] = "none"
        /\ task_pc[i] = "copy" => order[i] = "started"
        /\ task_pc[i] = "done" <=> order[i] \in {"succeeded", "failed"}
        /\ order[i] \in {"succeeded", "failed"} <=> terminals[i] = 1
        /\ order[i] \in {"none", "started"} <=> terminals[i] = 0)

\* a quiet run of one thread keeps all its pushes in the channel: the first
\* task pushed a single Error, the second StartFile, Downloading, Success
C17_Witness ==
    /\ quiet /\ Returned /\ thread_count = 1 /\ num_files = 2
    /\ message_queue = <<ErrorMsg(1, 1), StartFileMsg(1, 2), DownloadingMsg(1, 1),
                         SuccessMsg(1), DoneMsg>>

\* an iteration of the watcher loop that calls output()
Render == \E key \in Keys : TimedLoop(key) /\ renders' = renders + 1

\* C18 as stated: with rendering enabled the display is refreshed on its
\* fixed cadence whatever the arrival of messages: once the interval has
\* elapsed a render takes place even if no new message arrives, and
\* messages arriving within one interval of a render produce no further one.
C18_RendersOnTimer ==
    /\ []((w_pc = "running" /\ since > Dt /\ message_queue = <<>>) => ENABLED Render)
    /\ [][renders' # renders => since > Dt]_vars

\* C18 amended: the display is refreshed only while a message is handled: a
\* render takes place when the watcher has popped a message, process has
\* returned false for it and more than the interval has passed since the
\* last render; as long as no message arrives there is no render, however
\* much time has passed.  A render restarts the interval, so messages
\* arriving within one interval of a render produce no further one.
C18_RendersOnlyOnMessage ==
    /\ [](message_queue = <<>> => ~ENABLED Render)
    /\ [][renders' # renders =>
            /\ renders' = renders + 1
            /\ since > Dt /\ since' = 0
            /\ w_pc = "running" /\ w_pc' = "running"
            /\ message_queue # <<>> /\ message_queue' = Tail(message_queue)]_vars

\* StartFile and two Downloading were handled with one render among them,
\* and the interval of that render has not ended
C18_Witness ==
    /\ w_pc = "running" /\ fed = 3 /\ message_queue = <<>>
    /\ status_map[1].progress = 2
    /\ renders = 1 /\ since <= Dt

\* C19: in every execution of download_in_parallel with rendering enabled,
\* whenever the watcher is about to handle a Downloading for worker id w,
\* status_map has an entry for w, so the unwrap of get_mut never panics:
\* every Downloading in the channel that the watcher will handle (it has
\* not seen the quit key) finds its entry, and the watcher thread is never
\* in the panicked state.
C19_UnwrapNeverPanics ==
    [](/\ w_pc # "panicked"
       /\ (w_pc = "running" /\ ~quitting /\ message_queue # <<>>
               /\ Head(message_queue).type = "Downloading")
           => status_map[Head(message_queue).thread_id].present)

\* the only worker ran a task that failed and then a second one, and the
\* watcher has handled the Downloading of the second
C19_Witness ==
    /\ w_pc = "running" /\ msg.type = "Downloading"
    /\ thread_count = 1 /\ num_files = 2
    /\ order[1] = "failed" /\ runner[2] = 1
    /\ status_map[1].file_name = 2
    /\ status_map[1].progress = 1

\* the tasks a pool thread has run, and the last of them (a thread takes its
\* jobs from the head of the channel, so in ascending order)
TasksOf(t) == {i \in Tasks : runner[i] = t}
LastTaskOf(t) == CHOOSE i \in TasksOf(t) : \A j \in TasksOf(t) : j <= i

\* C20: when the watcher processes Done and no quit key was pressed,
\* files_finished is the number of tasks that ended in Success and the
\* entries left in status_map are exactly those of the workers whose last
\* task ended in Error, each holding that task's error; in every step an
\* Error leaves files_finished as it is and leaves an entry for its worker.
C20_FinalStateWithFailures ==
    /\ []((Stopped /\ msg.type = "Done" /\ ~quitting) =>
            /\ files_finished = Cardinality({i \in Tasks : order[i] = "succeeded"})
            /\ \A t \in 1..MaxThreads :
                  status_map[t].present <=>
                      (TasksOf(t) # {} /\ order[LastTaskOf(t)] = "failed")
            /\ \A t \in 1..MaxThreads :
                  status_map[t].present => status_map[t].error = LastTaskOf(t))
    /\ [][Handles("Error") =>
            /\ files_finished' = files_finished
            /\ status_map'[Head(message_queue).thread_id].present
            /\ status_map'[Head(message_queue).thread_id].error = Head(message_queue).err]_vars

\* two workers, the task of the first succeeded and the task of the second
\* failed: Done processed with one file finished and the second's entry left
C20_Witness ==
    /\ Stopped /\ msg.type = "Done" /\ ~quitting
    /\ num_files = 2 /\ runner[1] = 1 /\ runner[2] = 2
    /\ order[1] = "succeeded" /\ order[2] = "failed"
    /\ files_finished = 1
    /\ ~status_map[1].present
    /\ status_map[2].present /\ status_map[2].error = 2

====
